---- MODULE Spec2Model ----
(***************************************************************************)
(* Model of progress.go: the ProgressBar state object, its setters,        *)
(* ShowIn and Increment (the single render path).                          *)
(*                                                                         *)
(* Strings are sequences of code points in which every complete ANSI       *)
(* escape sequence is one element, so that strLen (strip the sequences,    *)
(* count the runes) is computed and not assumed.  The text handed to the   *)
(* writer is kept as the sequence of pieces appended by the successive     *)
(* `output +=` statements; each piece carries the text appended and the    *)
(* statement that appended it.                                             *)
(*                                                                         *)
(* float64 values are modelled by integers and exact rationals.  For the   *)
(* values that the input sets below can produce, the IEEE-754 results of   *)
(* (value/max)*100, math.Trunc and (percent/100)*fillSize coincide with    *)
(* the exact ones.                                                         *)
(***************************************************************************)
EXTENDS Integers, Sequences, FiniteSets, TLC

VARIABLES pb, written, rend, ev, nlWrites, incOnly

vars == <<pb, written, rend, ev, nlWrites, incOnly>>

(* ---------------------------- input sets ------------------------------ *)
DefaultMax == 100
TermCols == 12
CustomWidth == 8
SmallMax == 4
SmallValue == 2
BigCount == 50

AnsiSeqs == {"ESC[1;32m", "ESC[1;37m", "ESC[0m"}

Writers == {"stdout", "buffer"}
ConsoleCols == {0, TermCols}
Widths == {CustomWidth}
Counts == {0 - BigCount, 0, BigCount}
Values == {0 - SmallValue, SmallValue, DefaultMax + SmallValue}
Maxes == {0 - SmallMax, 0, SmallMax, DefaultMax}
Labels == {<<>>, <<"ESC[1;32m", "o", "k", "ESC[0m">>}
NaNConversions == {"zero", "minint"}

(* ------------------------------ strLen -------------------------------- *)
strLen(s) == Len(SelectSeq(s, LAMBDA c : c \notin AnsiSeqs))

(* ------------------------------ styles -------------------------------- *)
DefaultStyle ==
  [OpenChar |-> <<>>, CloseChar |-> <<>>,
   DoneChar |-> <<"ESC[1;32m", "U+2588", "ESC[0m">>,
   NotDoneChar |-> <<"ESC[1;37m", "U+2591", "ESC[0m">>,
   InProgressChar |-> <<"ESC[1;37m", "U+2591", "ESC[0m">>,
   PercentageColor |-> <<>>]

LineStyleNoColor ==
  [OpenChar |-> <<"U+2560">>, CloseChar |-> <<"U+2563">>,
   DoneChar |-> <<"U+2550">>, NotDoneChar |-> <<"U+2500">>,
   InProgressChar |-> <<"U+2500">>,
   PercentageColor |-> <<>>]

ArrowStyle ==
  [OpenChar |-> <<"[">>, CloseChar |-> <<"]">>,
   DoneChar |-> <<"=">>, NotDoneChar |-> <<"-">>,
   InProgressChar |-> <<"=", ">">>,
   PercentageColor |-> <<"ESC[1;32m">>]

NoCapStyle ==
  [OpenChar |-> <<"[">>, CloseChar |-> <<"]">>,
   DoneChar |-> <<"*">>, NotDoneChar |-> <<"-">>,
   InProgressChar |-> <<>>,
   PercentageColor |-> <<>>]

Styles == {DefaultStyle, LineStyleNoColor, ArrowStyle, NoCapStyle}


(* --------------------------- construction ----------------------------- *)
NewWithStyle(style) ==
  [style |-> style, max |-> DefaultMax,
   showPercentage |-> TRUE, showPercentageDecimal |-> FALSE,
   label |-> <<>>, showLabel |-> FALSE,
   writer |-> "nil", value |-> 0,
   maxWidth |-> 0, useCustomMaxWidth |-> FALSE,
   finished |-> FALSE, visible |-> FALSE]

(* --------------------------- fmt.Sprintf ------------------------------ *)
Digit(d) == <<"0", "1", "2", "3", "4", "5", "6", "7", "8", "9">>[d + 1]

RECURSIVE Digits(_)
Digits(n) == IF n < 10 THEN <<Digit(n)>>
             ELSE Digits(n \div 10) \o <<Digit(n % 10)>>

Rep(n, x) == [i \in 1..n |-> x]

(* "%4s": left-pad with spaces to four runes *)
PadLeft4(s) == Rep(4 - Len(s), " ") \o s

(* ----------------------------- percent -------------------------------- *)
(* percent = (pb.value / pb.max) * 100.0, truncated unless decimals are   *)
(* shown.  The value is num/den; nan is 0/0, neg is the sign bit of a     *)
(* zero (0 divided by a negative max).  The value has been clamped, so a  *)
(* max of 0 means value = 0 and a negative max means value = 0.           *)
Percent(value, max, decimal) ==
  IF max = 0 THEN [nan |-> TRUE, neg |-> FALSE, num |-> 0, den |-> 1]
  ELSE IF max < 0 THEN [nan |-> FALSE, neg |-> TRUE, num |-> 0, den |-> 1]
  ELSE IF decimal THEN [nan |-> FALSE, neg |-> FALSE, num |-> 100 * value, den |-> max]
  ELSE [nan |-> FALSE, neg |-> FALSE, num |-> (100 * value) \div max, den |-> 1]

(* percent >= 100 and percent < 100: both are false of NaN *)
AtLeast100(pc) == ~pc.nan /\ pc.num >= 100 * pc.den
Below100(pc) == ~pc.nan /\ pc.num < 100 * pc.den

(* fmt.Sprintf("%.2f%%", percent) / fmt.Sprintf("%.0f%%", percent) *)
PercentLabel(pc, decimal) ==
  LET sign == IF pc.neg THEN <<"-">> ELSE <<>>
      h == (200 * pc.num + pc.den) \div (2 * pc.den)
  IN IF pc.nan THEN <<"N", "a", "N", "%">>
     ELSE IF decimal
       THEN sign \o Digits(h \div 100) \o <<".">>
                 \o <<Digit((h % 100) \div 10), Digit(h % 10)>> \o <<"%">>
       ELSE sign \o Digits(pc.num) \o <<"%">>

(* strLen(fmt.Sprintf(..., 100.0)) *)
PercentLabelLength(decimal) ==
  strLen(PercentLabel([nan |-> FALSE, neg |-> FALSE, num |-> 100, den |-> 1], decimal))

(* ------------------------- Increment: state --------------------------- *)
(* mutant of ReturnsEarly: the visibility test is missing *)
ReturnsEarlyWhenFinished(p) == p.finished

(* if pb.finished || !pb.visible { return } *)
ReturnsEarly(p) == p.finished \/ ~p.visible

(* mutant of Clamp: the clamp to max is missing *)
ClampAtZero(value, max) == IF value < 0 THEN 0 ELSE value

(* pb.value += count, then the two clamps, in the order of the code *)
Clamp(value, max) ==
  LET v == IF value > max THEN max ELSE value
  IN IF v < 0 THEN 0 ELSE v

(* ------------------------- Increment: layout -------------------------- *)
LabelsLength(p) ==
  (IF p.showPercentage THEN PercentLabelLength(p.showPercentageDecimal) + 1 ELSE 0)
  + (IF p.showLabel THEN strLen(p.label) + 1 ELSE 0)

ProgressBarMinimumLength(style) ==
  strLen(style.DoneChar) + strLen(style.NotDoneChar) + strLen(style.InProgressChar)

ProgressBarAvailableLength(p, cols) ==
  (IF p.useCustomMaxWidth THEN p.maxWidth ELSE cols)
  - LabelsLength(p) - strLen(p.style.CloseChar) - strLen(p.style.OpenChar)

(* mutant of UsesFallback: only a negative length takes the fallback *)
UsesFallbackWhenNegative(availableLength, minimumLength) == availableLength < 0

UsesFallback(availableLength, minimumLength) == availableLength < minimumLength

Piece(part, text) == [part |-> part, text |-> text]

(* "\r", cols spaces, "\r" *)
ClearLine(cols) ==
  <<Piece("cr", <<"\r">>)>> \o Rep(cols, Piece("space", <<" ">>)) \o <<Piece("cr", <<"\r">>)>>

FallbackOutput(p, percentLabel) ==
  IF p.showLabel /\ p.showPercentage
    THEN <<Piece("fallback", p.label \o <<" ">> \o percentLabel)>>
  ELSE IF p.showPercentage
    THEN <<Piece("fallback", percentLabel)>>
  ELSE <<Piece("fallback", <<"L", "o", "a", "d", "i", "n", "g", ".", ".", ".">>)>>

(* int(math.Trunc((percent / 100) * float64(progressFillSize))).  The     *)
(* conversion of NaN to int is implementation-specific: 0 on some         *)
(* targets, the minimum int64 on others (see NotDoneCount).               *)
FilledBarLength(pc, progressFillSize) ==
  IF pc.nan THEN 0 ELSE (pc.num * progressFillSize) \div (100 * pc.den)

(* mutant of CapOutput: the in-progress glyph also at completion *)
CapAlwaysInProgress(style, pc) ==
  IF strLen(style.InProgressChar) > 0
    THEN <<Piece("inprogress", style.InProgressChar)>>
    ELSE <<>>

(* the in-progress position: InProgressChar while percent < 100, DoneChar *)
(* otherwise, nothing when InProgressChar has no display width            *)
CapOutput(style, pc) ==
  IF strLen(style.InProgressChar) > 0
    THEN IF Below100(pc)
           THEN <<Piece("inprogress", style.InProgressChar)>>
           ELSE <<Piece("donecap", style.DoneChar)>>
    ELSE <<>>

(* mutant of NotDoneCount: the width of the in-progress glyph is not reserved *)
NotDoneCountWhole(availableLength, filledBarLength, inProgressLength, wraps) ==
  IF wraps THEN 0 ELSE availableLength - filledBarLength

(* the bound of the NotDoneChar loop; with filledBarLength the minimum    *)
(* int64 the subtraction wraps to a negative number and the loop is empty *)
NotDoneCount(availableLength, filledBarLength, inProgressLength, wraps) ==
  IF wraps THEN 0
  ELSE availableLength - filledBarLength - inProgressLength

BarOutput(p, pc, percentLabel, availableLength, nanConv) ==
  LET st == p.style
      progressFillSize == availableLength - strLen(st.InProgressChar)
      filledBarLength == FilledBarLength(pc, progressFillSize)
      wraps == pc.nan /\ nanConv = "minint"
  IN (IF p.showLabel THEN <<Piece("label", p.label \o <<" ">>)>> ELSE <<>>)
     \o <<Piece("open", st.OpenChar)>>
     \o Rep(filledBarLength, Piece("done", st.DoneChar))
     \o CapOutput(st, pc)
     \o Rep(NotDoneCount(availableLength, filledBarLength,
                         strLen(st.InProgressChar), wraps),
            Piece("notdone", st.NotDoneChar))
     \o (IF strLen(st.CloseChar) > 0 THEN <<Piece("close", st.CloseChar)>> ELSE <<>>)
     \o (IF p.showPercentage
           THEN <<Piece("percent", <<" ">> \o st.PercentageColor \o PadLeft4(percentLabel))>>
           ELSE <<>>)

(* mutant of Finishes: percent > 100 *)
FinishesAbove100(pc) == ~pc.nan /\ pc.num > 100 * pc.den

(* percent >= 100: the bar is finished and the write ends with "\n" *)
Finishes(pc) == AtLeast100(pc)

NoRender == [rendered |-> FALSE, cols |-> 0, percent |-> Percent(0, 1, FALSE),
             availableLength |-> 0, minimumLength |-> 0]

(* The whole of Increment on the bar p: the bar after the call, the       *)
(* pieces written to p.writer (none when it returns early) and the        *)
(* values of its local variables.  cols is what GetConsoleSize returns.   *)
IncrementBar(p, count, cols, nanConv) ==
  IF ReturnsEarly(p)
    THEN [pb |-> p, written |-> <<>>, rend |-> NoRender]
  ELSE
    LET value == Clamp(p.value + count, p.max)
        q == [p EXCEPT !.value = value]
        pc == Percent(value, q.max, q.showPercentageDecimal)
        percentLabel == IF q.showPercentage
                          THEN PercentLabel(pc, q.showPercentageDecimal)
                          ELSE <<>>
        minimumLength == ProgressBarMinimumLength(q.style)
        availableLength == ProgressBarAvailableLength(q, cols)
        output == ClearLine(cols) \o
                  (IF UsesFallback(availableLength, minimumLength)
                     THEN FallbackOutput(q, percentLabel)
                     ELSE BarOutput(q, pc, percentLabel, availableLength, nanConv))
    IN [pb |-> [q EXCEPT !.finished = IF Finishes(pc) THEN TRUE ELSE q.finished],
        written |-> IF Finishes(pc)
                      THEN output \o <<Piece("newline", <<"\n">>)>>
                      ELSE output,
        rend |-> [rendered |-> TRUE, cols |-> cols, percent |-> pc,
                  availableLength |-> availableLength,
                  minimumLength |-> minimumLength]]

(* mutant of Refresh: the refresh increments by one *)
RefreshByOne(p, cols, nanConv) ==
  IF p.visible THEN IncrementBar(p, 1, cols, nanConv)
  ELSE [pb |-> p, written |-> <<>>, rend |-> NoRender]

(* if pb.visible { pb.Increment(0) }, the last statement of every setter *)
Refresh(p, cols, nanConv) ==
  IF p.visible THEN IncrementBar(p, 0, cols, nanConv)
  ELSE [pb |-> p, written |-> <<>>, rend |-> NoRender]

(* ------------------------------ state --------------------------------- *)
(* pb       the ProgressBar                                               *)
(* written  what the last call wrote to pb.writer (<<>>: nothing)         *)
(* rend     the local variables of the render the last call performed     *)
(* ev       the last call: its name, its argument, and the finished flag  *)
(*          and the value of the bar when it was made                     *)
(* nlWrites writes ending in "\n" since the last ShowIn (counted to 2)    *)
(* incOnly  every call since the last ShowIn was an Increment             *)
EndsWithNewline(w) == Len(w) > 0 /\ w[Len(w)].part = "newline"

Call(op, arg, res) ==
  /\ pb' = res.pb
  /\ written' = res.written
  /\ rend' = res.rend
  /\ ev' = [op |-> op, arg |-> arg, preFinished |-> pb.finished,
            preValue |-> pb.value]
  /\ nlWrites' = LET n == IF op = "ShowIn" THEN 0 ELSE nlWrites
                 IN IF EndsWithNewline(res.written) /\ n < 2 THEN n + 1 ELSE n
  /\ incOnly' = (op = "ShowIn" \/ (op = "Increment" /\ incOnly))

Init ==
  /\ pb \in {NewWithStyle(style) : style \in Styles}
  /\ written = <<>>
  /\ rend = NoRender
  /\ ev = [op |-> "New", arg |-> <<>>, preFinished |-> FALSE, preValue |-> 0]
  /\ nlWrites = 0
  /\ incOnly = FALSE

(* ----------------------------- operations ----------------------------- *)
(* What a call reads from its environment: the console width returned by  *)
(* GetConsoleSize and the target's conversion of NaN to int.  A call that *)
(* returns before the query, or whose percent is not NaN, reads neither,  *)
(* and is one step.                                                       *)
Inputs(p) ==
  {in \in [cols : ConsoleCols, nanConv : NaNConversions] :
     /\ ReturnsEarly(p) => in.cols = 0
     /\ (ReturnsEarly(p) \/ p.max # 0) => in.nanConv = "zero"}

SetLabel(label) ==
  LET p == [pb EXCEPT !.label = label, !.showLabel = strLen(label) > 0]
  IN \E in \in Inputs(p) :
       Call("SetLabel", label, Refresh(p, in.cols, in.nanConv))

SetShowPercentage(show) ==
  LET p == [pb EXCEPT !.showPercentage = show]
  IN \E in \in Inputs(p) :
       Call("SetShowPercentage", show, Refresh(p, in.cols, in.nanConv))

SetShowPercentageDecimal(show) ==
  LET p == [pb EXCEPT !.showPercentage = IF show THEN TRUE ELSE @,
                      !.showPercentageDecimal = show]
  IN \E in \in Inputs(p) :
       Call("SetShowPercentageDecimal", show, Refresh(p, in.cols, in.nanConv))

SetMax(max) ==
  LET p == [pb EXCEPT !.max = max]
  IN \E in \in Inputs(p) :
       Call("SetMax", max, Refresh(p, in.cols, in.nanConv))

SetMaxWidth(maxWidth) ==
  LET p == [pb EXCEPT !.maxWidth = maxWidth, !.useCustomMaxWidth = TRUE]
  IN \E in \in Inputs(p) :
       Call("SetMaxWidth", maxWidth, Refresh(p, in.cols, in.nanConv))

UseFullWidth ==
  LET p == [pb EXCEPT !.maxWidth = 0, !.useCustomMaxWidth = FALSE]
  IN \E in \in Inputs(p) :
       Call("UseFullWidth", <<>>, Refresh(p, in.cols, in.nanConv))

SetValue(value) ==
  LET p == [pb EXCEPT !.value = value]
  IN \E in \in Inputs(p) :
       Call("SetValue", value, Refresh(p, in.cols, in.nanConv))

(* mutant of Shown: finished is not reset *)
ShownStillFinished(p, w) ==
  [p EXCEPT !.visible = TRUE, !.writer = w, !.value = 0]

(* the assignments of ShowIn before its Increment(0) *)
Shown(p, w) ==
  [p EXCEPT !.visible = TRUE, !.writer = w, !.finished = FALSE, !.value = 0]

(* Show is ShowIn(os.Stdout) *)
ShowIn(w) ==
  \E in \in Inputs(Shown(pb, w)) :
    Call("ShowIn", w, IncrementBar(Shown(pb, w), 0, in.cols, in.nanConv))

Increment(count) ==
  \E in \in Inputs(pb) :
    Call("Increment", count, IncrementBar(pb, count, in.cols, in.nanConv))

Next ==
  \/ \E label \in Labels : SetLabel(label)
  \/ \E show \in BOOLEAN : SetShowPercentage(show)
  \/ \E show \in BOOLEAN : SetShowPercentageDecimal(show)
  \/ \E max \in Maxes : SetMax(max)
  \/ \E maxWidth \in Widths : SetMaxWidth(maxWidth)
  \/ UseFullWidth
  \/ \E value \in Values : SetValue(value)
  \/ \E w \in Writers : ShowIn(w)
  \/ \E count \in Counts : Increment(count)

Spec == Init /\ [][Next]_vars

(* ============================== claims ================================ *)
InRange == 0 <= pb.value /\ pb.value <= pb.max

Setters == {"SetLabel", "SetShowPercentage", "SetShowPercentageDecimal",
            "SetMax", "SetMaxWidth", "UseFullWidth", "SetValue"}

(* the number of pieces of w appended by the statements named in parts *)
Count(w, parts) == Cardinality({i \in 1..Len(w) : w[i].part \in parts})

BarParts == {"done", "donecap", "inprogress", "notdone"}

InProgressLength == strLen(pb.style.InProgressChar)

(* the last call rendered, and took the bar branch / the fallback branch *)
NormalRender ==
  rend.rendered /\ ~(rend.availableLength < rend.minimumLength)
FallbackRender ==
  rend.rendered /\ rend.availableLength < rend.minimumLength

(* C1: on a shown bar with a positive max, after every call of a sequence *)
(* of Increment calls since the Show, 0 <= value <= max.                  *)
C1_IncrementKeepsRange ==
  (pb.visible /\ incOnly /\ pb.max > 0) => InRange

(* an Increment that overshot the max of a bar shown with SmallMax *)
C1_Witness ==
  /\ pb.visible /\ incOnly /\ ev.op = "Increment" /\ ev.arg = BigCount
  /\ ev.preValue + ev.arg > pb.max
  /\ pb.max = SmallMax /\ pb.value = pb.max

(* C2: 0 <= value <= max holds after every public mutator call, in every  *)
(* reachable state with a positive max, before Show and after the finish  *)
(* included.                                                              *)
C2_ValueAlwaysInRange ==
  pb.max > 0 => InRange

(* C3: once the bar has finished, every Increment and every setter leaves *)
(* value and finished unchanged and writes nothing, until the next Show.  *)
C3_FinishedCallsChangeNothing ==
  [][(pb.finished /\ ev'.op # "ShowIn")
       => (pb'.value = pb.value /\ pb'.finished = pb.finished /\ written' = <<>>)]_vars

(* C4: in one Show cycle exactly one write ends with the newline; it is   *)
(* the write of the call whose percent is >= 100, which sets finished;    *)
(* the writes before it carry no newline and the calls after it write     *)
(* nothing.                                                               *)
C4_OneNewlinePerCycle ==
  /\ nlWrites = (IF pb.finished THEN 1 ELSE 0)
  /\ EndsWithNewline(written) <=> (rend.rendered /\ AtLeast100(rend.percent))
  /\ EndsWithNewline(written) => (pb.finished /\ ~ev.preFinished)
  /\ Count(written, {"newline"}) <= 1
  /\ (ev.preFinished /\ ev.op # "ShowIn") => written = <<>>

(* the second Increment(BigCount) of a bar with the default max *)
C4_Witness ==
  /\ ev.op = "Increment" /\ ev.arg = BigCount /\ incOnly
  /\ pb.max = DefaultMax /\ pb.value = DefaultMax
  /\ pb.finished /\ EndsWithNewline(written) /\ nlWrites = 1

(* the setters C5 names, and the field change each one makes *)
DisplaySetters == {"SetLabel", "SetShowPercentage", "SetShowPercentageDecimal",
                   "SetMax", "SetMaxWidth", "UseFullWidth"}

FieldApplied ==
  CASE ev.op = "SetLabel" ->
         pb.label = ev.arg /\ pb.showLabel = (strLen(ev.arg) > 0)
    [] ev.op = "SetShowPercentage" -> pb.showPercentage = ev.arg
    [] ev.op = "SetShowPercentageDecimal" ->
         pb.showPercentageDecimal = ev.arg /\ (ev.arg => pb.showPercentage)
    [] ev.op = "SetMax" -> pb.max = ev.arg
    [] ev.op = "SetMaxWidth" -> pb.maxWidth = ev.arg /\ pb.useCustomMaxWidth
    [] ev.op = "UseFullWidth" -> pb.maxWidth = 0 /\ ~pb.useCustomMaxWidth
    [] OTHER -> TRUE

OneRender == rend.rendered /\ written # <<>>

(* C5 as stated: on a visible, unfinished bar each display setter applies *)
(* its field change, writes exactly one render and leaves value unchanged *)
C5_SetterKeepsValue ==
  [][(pb.visible /\ ~pb.finished /\ ev'.op \in DisplaySetters)
       => (FieldApplied' /\ OneRender' /\ pb'.value = pb.value)]_vars

(* C5 as amended: the same, except that SetMax(m) with m below the value  *)
(* lowers the value to m (to 0 when m is negative).                       *)
C5_SetterClampsValue ==
  [][(pb.visible /\ ~pb.finished /\ ev'.op \in DisplaySetters)
       => /\ FieldApplied'
          /\ OneRender'
          /\ pb'.value = IF ev'.op = "SetMax" /\ pb.value > ev'.arg
                           THEN (IF ev'.arg < 0 THEN 0 ELSE ev'.arg)
                           ELSE pb.value]_vars

(* a SetMax on a visible, unfinished bar that lowered the value *)
C5_Witness ==
  /\ ev.op = "SetMax" /\ ~ev.preFinished /\ OneRender
  /\ ev.preValue = BigCount /\ pb.max = SmallMax /\ pb.value = SmallMax

(* C6: while the bar is not visible, no Increment and no setter writes    *)
(* anything, and Increment changes no field of the bar.                   *)
C6_HiddenBarIsSilent ==
  [][(~pb.visible /\ ev'.op # "ShowIn")
       => /\ written' = <<>>
          /\ ~rend'.rendered
          /\ pb'.writer = "nil"
          /\ (ev'.op = "Increment" => pb' = pb)]_vars

(* an Increment by a non-zero count on a bar never shown *)
C6_Witness ==
  ~pb.visible /\ ev.op = "Increment" /\ ev.arg = BigCount /\ written = <<>>

(* C7: ShowIn, in any state, leaves the bar visible, unfinished, at value *)
(* 0 and bound to the given sink, and renders; the Increment that follows *)
(* it renders again and moves the value.                                  *)
C7_ShowStartsCycle ==
  /\ [](ev.op = "ShowIn"
          => (pb.visible /\ ~pb.finished /\ pb.value = 0 /\ pb.writer = ev.arg
              /\ OneRender /\ nlWrites = 0))
  /\ [][(ev.op = "ShowIn" /\ ev'.op = "Increment")
          => (OneRender' /\ (pb.max > 0 /\ ev'.arg > 0 => pb'.value > 0))]_vars

(* a finished bar shown again, in the other sink *)
C7_Witness ==
  ev.op = "ShowIn" /\ ev.preFinished /\ ev.arg = "buffer" /\ pb.value = 0

(* C8 as stated: in the bar branch with 0 <= percent <= 100, the number   *)
(* of bar glyphs between the open and the close character equals          *)
(* progressBarAvailableLength.                                            *)
PercentIn0To100 == ~rend.percent.nan /\ rend.percent.num <= 100 * rend.percent.den

C8_GlyphCountIsAvailable ==
  (NormalRender /\ PercentIn0To100)
    => Count(written, BarParts) = rend.availableLength

(* C8 as amended: the done and not-done glyphs, plus the display width of *)
(* the in-progress glyph (for which one glyph is emitted when that width  *)
(* is not zero), add up to progressBarAvailableLength.                    *)
C8_GlyphsPlusCapWidth ==
  (NormalRender /\ PercentIn0To100)
    => /\ Count(written, {"done", "notdone"}) + InProgressLength
            = rend.availableLength
       /\ Count(written, {"donecap", "inprogress"})
            = (IF InProgressLength > 0 THEN 1 ELSE 0)

(* a bar rendered part-way with a two-rune in-progress glyph *)
C8_Witness ==
  /\ NormalRender /\ InProgressLength = 2
  /\ Count(written, {"done"}) > 0 /\ Count(written, {"notdone"}) > 0
  /\ Count(written, {"inprogress"}) = 1

(* what the last call wrote after the line-clearing prefix, without the   *)
(* final newline                                                          *)
Content ==
  LET n == Len(ClearLine(rend.cols))
      m == IF EndsWithNewline(written) THEN Len(written) - 1 ELSE Len(written)
  IN SubSeq(written, n + 1, m)

Text(w) == [i \in 1..Len(w) |-> w[i].text]

ShownPercent == PercentLabel(rend.percent, pb.showPercentageDecimal)

(* C9: whenever progressBarAvailableLength < progressBarMinimumLength the *)
(* render emits no bar glyph, no open and no close character, and its     *)
(* content is "<label> <percentLabel>", "<percentLabel>" or "Loading...". *)
C9_FallbackForms ==
  FallbackRender
    => /\ SubSeq(written, 1, Len(ClearLine(rend.cols))) = ClearLine(rend.cols)
       /\ Count(written, BarParts \cup {"open", "close", "label", "percent"}) = 0
       /\ Text(Content) =
            IF pb.showLabel /\ pb.showPercentage
              THEN << pb.label \o <<" ">> \o ShownPercent >>
            ELSE IF pb.showPercentage
              THEN << ShownPercent >>
            ELSE << <<"L", "o", "a", "d", "i", "n", "g", ".", ".", ".">> >>

(* a labelled fallback line on a console of width 0, part-way *)
C9_Witness ==
  /\ FallbackRender /\ rend.cols = 0 /\ ~pb.useCustomMaxWidth
  /\ pb.showLabel /\ pb.showPercentage /\ pb.value = BigCount

(* C10: a bar-branch render at percent >= 100 with an in-progress glyph   *)
(* of non-zero width has the done glyph in the cap position and ends with *)
(* exactly one newline; the in-progress glyph is emitted only at          *)
(* percent < 100.                                                         *)
CapIndex ==
  Len(ClearLine(rend.cols)) + (IF pb.showLabel THEN 1 ELSE 0) + 1
  + (rend.availableLength - InProgressLength) + 1

C10_DoneCapAtCompletion ==
  /\ (NormalRender /\ AtLeast100(rend.percent) /\ InProgressLength > 0)
       => /\ Count(written, {"inprogress"}) = 0
          /\ Count(written, {"donecap"}) = 1
          /\ written[CapIndex] = Piece("donecap", pb.style.DoneChar)
          /\ EndsWithNewline(written)
          /\ Count(written, {"newline"}) = 1
  /\ Count(written, {"inprogress"}) > 0 => Below100(rend.percent)

(* the default style's bar at 100 percent *)
C10_Witness ==
  /\ NormalRender /\ AtLeast100(rend.percent) /\ pb.style = DefaultStyle
  /\ Count(written, {"done"}) > 0 /\ pb.finished

====
